---------------------------- MODULE Spec2Model ----------------------------
(***************************************************************************)
(* Model of the cl-protobufs file generator, src/protoc/file.cc:           *)
(* FileGenerator::FileGenerator (the constructor) and                      *)
(* FileGenerator::GenerateSource (the driver that writes one schema file). *)
(*                                                                         *)
(* Strings are sequences of ASCII codes, so that find_last_of, rfind,      *)
(* erase, StrToLower, operator+ and the ordering of std::set<std::string>  *)
(* are computed as the code computes them.  The printer is an append-only  *)
(* sequence of tokens, one token per statement the driver prints.          *)
(***************************************************************************)
EXTENDS Naturals, Sequences, FiniteSets

VARIABLES
  files,               \* the schema files generated in this run (a batch)
  desc,                \* file -> its FileDescriptor (read-only input)
  pc,                  \* file -> position of its generator in the code
  lisp_package_name_,  \* member lisp_package_name_
  schema_name_,        \* member schema_name_
  syntax_,             \* member syntax_
  packages,            \* local std::set<std::string> packages
  exports,             \* local std::vector<std::string> exports
  rpc_exports,         \* local std::vector<std::string> rpc_exports
  i,                   \* the loop index of the running for loop
  out                  \* what has been written to the file's printer

vars == <<files, desc, pc, lisp_package_name_, schema_name_, syntax_,
          packages, exports, rpc_exports, i, out>>

(***************************************************************************)
(* Bounds of the model.                                                    *)
(***************************************************************************)
\* Most top-level entities (enums + messages + extensions + services) of a file.
MaxEntities == 4
\* Longest file path of the path family.
MaxPathLen == 4

(***************************************************************************)
(* Strings.                                                                *)
(***************************************************************************)
Empty == <<>>
\* "-RPC"
RpcSuffix == <<45, 82, 80, 67>>
\* "common-lisp-user"
CommonLispUser ==
  <<99, 111, 109, 109, 111, 110, 45, 108, 105, 115, 112, 45, 117, 115, 101, 114>>
\* ":proto2" and ":proto3"
Proto2Keyword == <<58, 112, 114, 111, 116, 111, 50>>
Proto3Keyword == <<58, 112, 114, 111, 116, 111, 51>>
\* The characters find_last_of("\\/") looks for: backslash and slash.
Separators == {92, 47}
\* The character rfind('.') looks for.
Period == 46

Min(a, b) == IF a < b THEN a ELSE b

\* std::string's operator<, the order of std::set<std::string>: lexicographic
\* on the characters, a proper prefix first.
LexLess(a, b) ==
  \E k \in 0..Min(Len(a), Len(b)) :
     /\ \A j \in 1..k : a[j] = b[j]
     /\ \/ k = Len(a) /\ k < Len(b)
        \/ k < Len(a) /\ k < Len(b) /\ a[k + 1] < b[k + 1]

\* Mutant of SetOrder: the set ordered by std::greater.
RECURSIVE SetOrderDescending(_)
SetOrderDescending(S) ==
  IF S = {} THEN <<>>
  ELSE LET m == CHOOSE x \in S : \A y \in S \ {x} : LexLess(y, x)
       IN  <<m>> \o SetOrderDescending(S \ {m})

\* The order in which a range-for visits a std::set<std::string>.
RECURSIVE SetOrder(_)
SetOrder(S) ==
  IF S = {} THEN <<>>
  ELSE LET m == CHOOSE x \in S : \A y \in S \ {x} : LexLess(x, y)
       IN  <<m>> \o SetOrder(S \ {m})

\* s.find_last_of(chars) and s.rfind(c), as a 1-based position; 0 is npos.
FindLastOf(s, chars) ==
  IF \E k \in 1..Len(s) : s[k] \in chars
  THEN CHOOSE k \in 1..Len(s) :
         /\ s[k] \in chars
         /\ \A j \in (k + 1)..Len(s) : s[j] \notin chars
  ELSE 0

\* StrToLower: the upper-case ASCII letters become lower-case.
StrToLower(s) ==
  [k \in 1..Len(s) |-> IF s[k] \in 65..90 THEN s[k] + 32 ELSE s[k]]

\* Mutant of DeriveSchemaName: find_last_of("/"), the backslash forgotten.
DeriveSchemaNameSlashOnly(name) ==
  LET slash  == FindLastOf(name, {47})
      base   == IF slash # 0 THEN SubSeq(name, slash + 1, Len(name)) ELSE name
      period == FindLastOf(base, {Period})
      stem   == IF period # 0 THEN SubSeq(base, 1, period - 1) ELSE base
  IN  StrToLower(stem)

\* Lines 60-69: erase up to the last separator, erase from the last period
\* of what is left, lower the case.
DeriveSchemaName(name) ==
  LET slash  == FindLastOf(name, Separators)
      base   == IF slash # 0 THEN SubSeq(name, slash + 1, Len(name)) ELSE name
      period == FindLastOf(base, {Period})
      stem   == IF period # 0 THEN SubSeq(base, 1, period - 1) ELSE base
  IN  StrToLower(stem)

(***************************************************************************)
(* The descriptor of a file and what the code reads from it.               *)
(***************************************************************************)
\* FileLispPackage(file), the target namespace of the file.
FileLispPackage(f) == desc[f].lisp_package
\* lisp_package_name_ + "-RPC"
RpcPackage(f) == lisp_package_name_[f] \o RpcSuffix

EnumTypeCount(f) == Len(desc[f].enum_type)
MessageTypeCount(f) == Len(desc[f].message_type)
ExtensionCount(f) == desc[f].extension_count
ServiceCount(f) == Len(desc[f].service)
DependencyCount(f) == Len(desc[f].dependency)

\* What the entity generators report; index n is the code's index n - 1.
EnumAddExports(f, n) == desc[f].enum_type[n].exports
MessageAddExports(f, n) == desc[f].message_type[n].exports
MessageAddPackages(f, n) == desc[f].message_type[n].packages
ServiceAddExports(f, n) == desc[f].service[n].exports
ServiceAddRpcExports(f, n) == desc[f].service[n].rpc_exports

\* Mutant of SyntaxIsFatal: the unknown syntax is only logged.
SyntaxNeverFatal(f) == FALSE

\* The switch on file_->syntax(): SYNTAX_UNKNOWN is GOOGLE_LOG(FATAL).
SyntaxIsFatal(f) == desc[f].syntax = "unknown"
SyntaxKeyword(f) ==
  IF desc[f].syntax = "proto2" THEN Proto2Keyword ELSE Proto3Keyword

(***************************************************************************)
(* The printer.                                                            *)
(***************************************************************************)
Tok(k, s, n, l) == [k |-> k, s |-> s, n |-> n, l |-> l]
Emit(f, toks) == out' = [out EXCEPT ![f] = @ \o toks]


(***************************************************************************)
(* The descriptors the model generates.                                    *)
(***************************************************************************)
Str_A == <<65>>                          \* "A"
Str_ABang == <<65, 33>>                  \* "A!", between "A" and "A-RPC"
Str_B == <<66>>                          \* "B"
Str_ab == <<97, 98>>                     \* "ab"
Str_e == <<101>>                         \* "e"
Str_m == <<109>>                         \* "m"
Str_n == <<110>>                         \* "n"
Str_p == <<112>>                         \* "p"
Str_q == <<113>>                         \* "q"
Str_r == <<114>>                         \* "r"
Str_s == <<115>>                         \* "s"
Str_v == <<118>>                         \* "v"
\* "D.x/Ab.p", whose schema name is "ab", and "c.p", whose schema name is "c"
MainPath == <<68, 46, 120, 47, 65, 98, 46, 112>>
OtherPath == <<99, 46, 112>>

Syntaxes == {"proto2", "proto3", "unknown"}
LispPackages == {Empty, Str_A}
\* The syntax, the declared package and the imports of a file.
Heads ==
  {[syntax |-> "proto2", package |-> Empty, dependency |-> <<>>],
   [syntax |-> "proto3", package |-> Str_p,
    dependency |-> <<OtherPath, Str_q>>],
   [syntax |-> "unknown", package |-> Str_p, dependency |-> <<OtherPath>>]}
\* An enum: the symbols its generator exports.
EnumChoices == {[exports |-> <<Str_e>>], [exports |-> <<Str_ab, Str_v>>]}
\* A message: the symbols it exports and the namespaces its fields touch.
MessageChoices ==
  {[exports |-> <<Str_m>>, packages |-> {}],
   [exports |-> <<Str_ab>>, packages |-> {Str_A}],
   [exports |-> <<Str_m, Str_n>>, packages |-> {Str_B, Str_ABang}]}
\* A service: the symbols it exports and its RPC exports.
ServiceChoices ==
  {[exports |-> <<Str_s>>, rpc_exports |-> <<>>],
   [exports |-> <<Str_s>>, rpc_exports |-> <<Str_r>>],
   [exports |-> <<Str_e, Str_s>>, rpc_exports |-> <<Str_r, Str_q>>]}

Descriptor(name, head, lisp, es, ms, x, ss) ==
  [name |-> name, syntax |-> head.syntax, lisp_package |-> lisp,
   package |-> head.package, dependency |-> head.dependency,
   enum_type |-> es, message_type |-> ms, extension_count |-> x,
   service |-> ss]

\* How many enums, messages, extensions and services a file has.
EntityCounts ==
  {c \in [1..4 -> 0..MaxEntities] : c[1] + c[2] + c[3] + c[4] <= MaxEntities}

\* The characters of the path family: slash, backslash, period, "A", "b".
PathChars == {47, 92, 46, 65, 98}
Paths == UNION {[1..k -> PathChars] : k \in 0..MaxPathLen}
\* A file of the path family: its path, and one enum.
PathDesc(p) ==
  Descriptor(p, [syntax |-> "proto3", package |-> Empty, dependency |-> <<>>],
             Str_A, <<[exports |-> <<Str_e>>]>>, <<>>, 0, <<>>)

\* A batch of two files: file 1 is "c.p", file 2 is "D.x/Ab.p" and may
\* import file 1.  Each has one entity of every kind.
BatchDesc(name, sx, lp, deps, kind) ==
  Descriptor(name, [syntax |-> sx, package |-> Str_p, dependency |-> deps],
             lp,
             <<[exports |-> <<Str_e>>]>>,
             <<[exports |-> <<Str_m>>,
                packages |-> IF kind = 1 THEN {Str_B} ELSE {Str_A}]>>,
             1,
             <<[exports |-> <<Str_s>>,
                rpc_exports |-> IF kind = 1 THEN <<Str_r>> ELSE <<>>]>>)

BatchFirst ==
  {BatchDesc(OtherPath, sx, lp, <<>>, kind) :
     sx \in Syntaxes, lp \in LispPackages, kind \in 1..2}
BatchSecond ==
  {BatchDesc(MainPath, sx, lp, deps, kind) :
     sx \in Syntaxes, lp \in LispPackages, kind \in 1..2,
     deps \in {<<>>, <<OtherPath>>}}
BatchDescs ==
  {[f \in {1, 2} |-> IF f = 1 THEN d1 ELSE d2] :
     d1 \in BatchFirst, d2 \in BatchSecond}

(***************************************************************************)
(* The state after nothing has run: every generator is still to be built.  *)
(***************************************************************************)
Start(fs) ==
  /\ files = fs
  /\ pc = [f \in fs |-> "new"]
  /\ lisp_package_name_ = [f \in fs |-> Empty]
  /\ schema_name_ = [f \in fs |-> Empty]
  /\ syntax_ = [f \in fs |-> Empty]
  /\ packages = [f \in fs |-> {}]
  /\ exports = [f \in fs |-> <<>>]
  /\ rpc_exports = [f \in fs |-> <<>>]
  /\ i = [f \in fs |-> 0]
  /\ out = [f \in fs |-> <<>>]

\* One file: of any shape with at most MaxEntities top-level entities, or
\* of any path of at most MaxPathLen characters.
Init ==
  /\ Start({1})
  /\ \/ \E c \in EntityCounts, hd \in Heads, lp \in LispPackages :
          \E es \in [1..c[1] -> EnumChoices],
             ms \in [1..c[2] -> MessageChoices],
             ss \in [1..c[4] -> ServiceChoices] :
            desc = [f \in {1} |->
                      Descriptor(MainPath, hd, lp, es, ms, c[3], ss)]
     \/ \E p \in Paths : desc = [f \in {1} |-> PathDesc(p)]

InitBatch ==
  /\ Start({1, 2})
  /\ desc \in BatchDescs


(***************************************************************************)
(* FileGenerator::FileGenerator.                                           *)
(***************************************************************************)
\* Lines 29-70.  An unknown syntax is fatal: the process ends inside the
\* constructor, before the schema name is derived.
Construct(f) ==
  /\ pc[f] = "new"
  /\ lisp_package_name_' = [lisp_package_name_ EXCEPT ![f] = FileLispPackage(f)]
  /\ IF SyntaxIsFatal(f)
     THEN /\ pc' = [pc EXCEPT ![f] = "aborted"]
          /\ schema_name_' = [schema_name_ EXCEPT ![f] = desc[f].name]
          /\ UNCHANGED syntax_
     ELSE /\ pc' = [pc EXCEPT ![f] = "header"]
          /\ syntax_' = [syntax_ EXCEPT ![f] = SyntaxKeyword(f)]
          /\ schema_name_' =
               [schema_name_ EXCEPT ![f] = DeriveSchemaName(desc[f].name)]
  /\ UNCHANGED <<files, desc, packages, exports, rpc_exports, i, out>>

(***************************************************************************)
(* FileGenerator::GenerateSource, statement by statement.                  *)
(***************************************************************************)
\* Lines 75-82: the banner and the switch to common-lisp-user.
PrintHeader(f) ==
  /\ pc[f] = "header"
  /\ Emit(f, <<Tok("banner", desc[f].name, 0, <<>>),
               Tok("in-package", CommonLispUser, 0, <<>>)>>)
  /\ pc' = [pc EXCEPT ![f] = "packages"]
  /\ UNCHANGED <<files, desc, lisp_package_name_, schema_name_, syntax_,
                 packages, exports, rpc_exports, i>>

\* Lines 85-90: what the driver itself puts into the set.
OwnPackages(f) ==
  IF lisp_package_name_[f] # Empty
  THEN {lisp_package_name_[f]} \cup
       (IF ServiceCount(f) > 0 THEN {RpcPackage(f)} ELSE {})
  ELSE {}

\* Lines 84-94: the set of namespaces to declare.
CollectPackages(f) ==
  /\ pc[f] = "packages"
  /\ packages' = [packages EXCEPT ![f] =
        OwnPackages(f) \cup
        UNION {MessageAddPackages(f, n) : n \in 1..MessageTypeCount(f)}]
  /\ pc' = [pc EXCEPT ![f] = "declare"]
  /\ UNCHANGED <<files, desc, lisp_package_name_, schema_name_, syntax_,
                 exports, rpc_exports, i, out>>

\* Lines 98-104: one defpackage for each element, in the set's order.
PackageDeclarations(S) ==
  LET order == SetOrder(S)
  IN  [k \in 1..Len(order) |-> Tok("defpackage", order[k], 0, <<>>)]

\* Lines 96-104.
DeclarePackages(f) ==
  /\ pc[f] = "declare"
  /\ Emit(f, <<Tok("declaim", Empty, 0, <<>>)>> \o
             PackageDeclarations(packages[f]))
  /\ pc' = [pc EXCEPT ![f] = "in_package"]
  /\ UNCHANGED <<files, desc, lisp_package_name_, schema_name_, syntax_,
                 packages, exports, rpc_exports, i>>

\* Lines 106-109.
EnterPackage(f) ==
  /\ pc[f] = "in_package"
  /\ Emit(f, IF lisp_package_name_[f] # Empty
             THEN <<Tok("in-package", lisp_package_name_[f], 0, <<>>)>>
             ELSE <<>>)
  /\ pc' = [pc EXCEPT ![f] = "schema"]
  /\ UNCHANGED <<files, desc, lisp_package_name_, schema_name_, syntax_,
                 packages, exports, rpc_exports, i>>

\* Lines 111-134: define-schema with :syntax, :package and :import.
SchemaBlock(f) ==
  <<Tok("define-schema", schema_name_[f], 0, <<>>),
    Tok("syntax", syntax_[f], 0, <<>>)>> \o
  (IF desc[f].package # Empty
   THEN <<Tok("package", desc[f].package, 0, <<>>)>> ELSE <<>>) \o
  (IF DependencyCount(f) > 0
   THEN <<Tok("import", Empty, 0, desc[f].dependency)>> ELSE <<>>) \o
  <<Tok("end-schema", Empty, 0, <<>>)>>

\* Mutant of InitialExports: the schema name is not exported.
NoInitialExports(f) == <<>>
\* Mutant of InitialExports: the export list is a static that the generators
\* of a batch share and never clear.
SharedExports(f) ==
  LET g == CHOOSE g \in files : g # f
  IN  exports[g] \o <<schema_name_[f]>>

\* Lines 138-139: the export list starts with the schema name.
InitialExports(f) == <<schema_name_[f]>>

\* Lines 111-139.
DefineSchema(f) ==
  /\ pc[f] = "schema"
  /\ Emit(f, SchemaBlock(f))
  /\ exports' = [exports EXCEPT ![f] = InitialExports(f)]
  /\ pc' = [pc EXCEPT ![f] = "enums"]
  /\ UNCHANGED <<files, desc, lisp_package_name_, schema_name_, syntax_,
                 packages, rpc_exports, i>>


\* Mutant of BeginEnums: the loop starts at the second enum.
BeginEnumsFromSecond(f) ==
  /\ pc[f] = "enums"
  /\ IF EnumTypeCount(f) > 0
     THEN /\ Emit(f, <<Tok("section", Empty, 0, <<"enums">>)>>)
          /\ i' = [i EXCEPT ![f] = 2]
          /\ pc' = [pc EXCEPT ![f] = "enum"]
     ELSE /\ pc' = [pc EXCEPT ![f] = "messages"]
          /\ UNCHANGED <<i, out>>
  /\ UNCHANGED <<files, desc, lisp_package_name_, schema_name_, syntax_,
                 packages, exports, rpc_exports>>

\* Lines 141-142: the section comment, when there are enums.
BeginEnums(f) ==
  /\ pc[f] = "enums"
  /\ IF EnumTypeCount(f) > 0
     THEN /\ Emit(f, <<Tok("section", Empty, 0, <<"enums">>)>>)
          /\ i' = [i EXCEPT ![f] = 1]
          /\ pc' = [pc EXCEPT ![f] = "enum"]
     ELSE /\ pc' = [pc EXCEPT ![f] = "messages"]
          /\ UNCHANGED <<i, out>>
  /\ UNCHANGED <<files, desc, lisp_package_name_, schema_name_, syntax_,
                 packages, exports, rpc_exports>>

\* Lines 143-146: one turn of the loop; enums_[i] is the model's i - 1.
GenerateEnum(f) ==
  /\ pc[f] = "enum"
  /\ i[f] <= EnumTypeCount(f)
  /\ Emit(f, <<Tok("enum", Empty, i[f] - 1, <<>>)>>)
  /\ exports' = [exports EXCEPT ![f] = @ \o EnumAddExports(f, i[f])]
  /\ IF i[f] < EnumTypeCount(f)
     THEN /\ i' = [i EXCEPT ![f] = @ + 1]
          /\ UNCHANGED pc
     ELSE /\ i' = [i EXCEPT ![f] = 0]
          /\ pc' = [pc EXCEPT ![f] = "messages"]
  /\ UNCHANGED <<files, desc, lisp_package_name_, schema_name_, syntax_,
                 packages, rpc_exports>>

\* Lines 149-150.
BeginMessages(f) ==
  /\ pc[f] = "messages"
  /\ IF MessageTypeCount(f) > 0
     THEN /\ Emit(f, <<Tok("section", Empty, 0, <<"messages">>)>>)
          /\ i' = [i EXCEPT ![f] = 1]
          /\ pc' = [pc EXCEPT ![f] = "message"]
     ELSE /\ pc' = [pc EXCEPT ![f] = "extensions"]
          /\ UNCHANGED <<i, out>>
  /\ UNCHANGED <<files, desc, lisp_package_name_, schema_name_, syntax_,
                 packages, exports, rpc_exports>>

\* Mutant of GenerateMessage: the exports are inserted at the front.
GenerateMessageExportsInFront(f) ==
  /\ pc[f] = "message"
  /\ i[f] <= MessageTypeCount(f)
  /\ Emit(f, <<Tok("message", Empty, i[f] - 1, <<>>)>>)
  /\ exports' = [exports EXCEPT ![f] = MessageAddExports(f, i[f]) \o @]
  /\ IF i[f] < MessageTypeCount(f)
     THEN /\ i' = [i EXCEPT ![f] = @ + 1]
          /\ UNCHANGED pc
     ELSE /\ i' = [i EXCEPT ![f] = 0]
          /\ pc' = [pc EXCEPT ![f] = "extensions"]
  /\ UNCHANGED <<files, desc, lisp_package_name_, schema_name_, syntax_,
                 packages, rpc_exports>>

\* Lines 151-154.
GenerateMessage(f) ==
  /\ pc[f] = "message"
  /\ i[f] <= MessageTypeCount(f)
  /\ Emit(f, <<Tok("message", Empty, i[f] - 1, <<>>)>>)
  /\ exports' = [exports EXCEPT ![f] = @ \o MessageAddExports(f, i[f])]
  /\ IF i[f] < MessageTypeCount(f)
     THEN /\ i' = [i EXCEPT ![f] = @ + 1]
          /\ UNCHANGED pc
     ELSE /\ i' = [i EXCEPT ![f] = 0]
          /\ pc' = [pc EXCEPT ![f] = "extensions"]
  /\ UNCHANGED <<files, desc, lisp_package_name_, schema_name_, syntax_,
                 packages, rpc_exports>>

\* Lines 157-158.
BeginExtensions(f) ==
  /\ pc[f] = "extensions"
  /\ IF ExtensionCount(f) > 0
     THEN /\ Emit(f, <<Tok("section", Empty, 0, <<"extensions">>)>>)
          /\ i' = [i EXCEPT ![f] = 1]
          /\ pc' = [pc EXCEPT ![f] = "extension"]
     ELSE /\ pc' = [pc EXCEPT ![f] = "services"]
          /\ UNCHANGED <<i, out>>
  /\ UNCHANGED <<files, desc, lisp_package_name_, schema_name_, syntax_,
                 packages, exports, rpc_exports>>

\* Lines 159-161: GenerateExtension prints; nothing is added to the exports.
GenerateExtension(f) ==
  /\ pc[f] = "extension"
  /\ i[f] <= ExtensionCount(f)
  /\ Emit(f, <<Tok("extension", Empty, i[f] - 1, <<>>)>>)
  /\ IF i[f] < ExtensionCount(f)
     THEN /\ i' = [i EXCEPT ![f] = @ + 1]
          /\ UNCHANGED pc
     ELSE /\ i' = [i EXCEPT ![f] = 0]
          /\ pc' = [pc EXCEPT ![f] = "services"]
  /\ UNCHANGED <<files, desc, lisp_package_name_, schema_name_, syntax_,
                 packages, exports, rpc_exports>>

\* Lines 164-166: rpc_exports starts empty.
BeginServices(f) ==
  /\ pc[f] = "services"
  /\ rpc_exports' = [rpc_exports EXCEPT ![f] = <<>>]
  /\ IF ServiceCount(f) > 0
     THEN /\ Emit(f, <<Tok("section", Empty, 0, <<"services">>)>>)
          /\ i' = [i EXCEPT ![f] = 1]
          /\ pc' = [pc EXCEPT ![f] = "service"]
     ELSE /\ pc' = [pc EXCEPT ![f] = "register"]
          /\ UNCHANGED <<i, out>>
  /\ UNCHANGED <<files, desc, lisp_package_name_, schema_name_, syntax_,
                 packages, exports>>

\* Lines 167-171.
GenerateService(f) ==
  /\ pc[f] = "service"
  /\ i[f] <= ServiceCount(f)
  /\ Emit(f, <<Tok("service", Empty, i[f] - 1, <<>>)>>)
  /\ exports' = [exports EXCEPT ![f] = @ \o ServiceAddExports(f, i[f])]
  /\ rpc_exports' =
       [rpc_exports EXCEPT ![f] = @ \o ServiceAddRpcExports(f, i[f])]
  /\ IF i[f] < ServiceCount(f)
     THEN /\ i' = [i EXCEPT ![f] = @ + 1]
          /\ UNCHANGED pc
     ELSE /\ i' = [i EXCEPT ![f] = 0]
          /\ pc' = [pc EXCEPT ![f] = "register"]
  /\ UNCHANGED <<files, desc, lisp_package_name_, schema_name_, syntax_,
                 packages>>

\* Mutant of Registration: registered only inside a namespace.
RegistrationInNamespaceOnly(f) ==
  IF lisp_package_name_[f] # Empty
  THEN <<Tok("register", desc[f].name, 0, <<schema_name_[f]>>)>>
  ELSE <<>>

\* Lines 176-182: the path, and the schema name it is bound to.
Registration(f) == <<Tok("register", desc[f].name, 0, <<schema_name_[f]>>)>>

RegisterSchema(f) ==
  /\ pc[f] = "register"
  /\ Emit(f, Registration(f))
  /\ pc' = [pc EXCEPT ![f] = "export"]
  /\ UNCHANGED <<files, desc, lisp_package_name_, schema_name_, syntax_,
                 packages, exports, rpc_exports, i>>

\* Mutants of ExportsPrinted and RpcExportsPrinted: the test of the
\* namespace is missing.
ExportsPrintedUnguarded(f) == exports[f] # <<>>
RpcExportsPrintedUnguarded(f) == rpc_exports[f] # <<>>

\* Lines 184 and 186: when the export statement is printed.
ExportsPrinted(f) == lisp_package_name_[f] # Empty /\ exports[f] # <<>>
\* Lines 184 and 196: when the RPC export statement is printed.
RpcExportsPrinted(f) == lisp_package_name_[f] # Empty /\ rpc_exports[f] # <<>>

\* Lines 184-194.
ExportSymbols(f) ==
  /\ pc[f] = "export"
  /\ Emit(f, IF ExportsPrinted(f)
             THEN <<Tok("export", Empty, 0, exports[f])>>
             ELSE <<>>)
  /\ pc' = [pc EXCEPT ![f] = "rpc_export"]
  /\ UNCHANGED <<files, desc, lisp_package_name_, schema_name_, syntax_,
                 packages, exports, rpc_exports, i>>

\* Lines 196-208.
ExportRpcSymbols(f) ==
  /\ pc[f] = "rpc_export"
  /\ Emit(f, IF RpcExportsPrinted(f)
             THEN <<Tok("in-package", RpcPackage(f), 0, <<>>),
                    Tok("export", Empty, 0, rpc_exports[f])>>
             ELSE <<>>)
  /\ pc' = [pc EXCEPT ![f] = "done"]
  /\ UNCHANGED <<files, desc, lisp_package_name_, schema_name_, syntax_,
                 packages, exports, rpc_exports, i>>

Next ==
  \/ \E f \in files : Construct(f)
  \/ \E f \in files : PrintHeader(f)
  \/ \E f \in files : CollectPackages(f)
  \/ \E f \in files : DeclarePackages(f)
  \/ \E f \in files : EnterPackage(f)
  \/ \E f \in files : DefineSchema(f)
  \/ \E f \in files : BeginEnums(f)
  \/ \E f \in files : GenerateEnum(f)
  \/ \E f \in files : BeginMessages(f)
  \/ \E f \in files : GenerateMessage(f)
  \/ \E f \in files : BeginExtensions(f)
  \/ \E f \in files : GenerateExtension(f)
  \/ \E f \in files : BeginServices(f)
  \/ \E f \in files : GenerateService(f)
  \/ \E f \in files : RegisterSchema(f)
  \/ \E f \in files : ExportSymbols(f)
  \/ \E f \in files : ExportRpcSymbols(f)

\* One file, of any of the descriptors.
Spec == Init /\ [][Next]_vars
\* Two files generated in one run, their steps in any order.
SpecBatch == InitBatch /\ [][Next]_vars


(***************************************************************************)
(* Vocabulary of the properties.  The properties read the descriptor and   *)
(* the printed output; what they expect is stated from the descriptor.     *)
(***************************************************************************)
Done(f) == pc[f] = "done"
Built(f) == pc[f] \notin {"new", "aborted"}
\* The positions of the output that hold a token of one of the kinds.
Positions(o, kinds) == {p \in 1..Len(o) : o[p].k \in kinds}
EntityKinds == {"enum", "message", "extension", "service"}
KindRank(k) ==
  CASE k = "enum" -> 1 [] k = "message" -> 2 [] k = "extension" -> 3
    [] k = "service" -> 4
\* How many entities of a kind the descriptor declares.
Declared(d, k) ==
  CASE k = "enum" -> Len(d.enum_type) [] k = "message" -> Len(d.message_type)
    [] k = "extension" -> d.extension_count [] k = "service" -> Len(d.service)
\* The target namespace of a file and its RPC namespace.
TargetNamespace(d) == d.lisp_package
RpcNamespace(d) == d.lisp_package \o <<45, 82, 80, 67>>
\* How often x occurs in the sequence s.
Count(x, s) == Cardinality({p \in 1..Len(s) : s[p] = x})
RECURSIVE Flatten(_)
Flatten(ss) == IF ss = <<>> THEN <<>> ELSE Head(ss) \o Flatten(Tail(ss))

(***************************************************************************)
(* C1.  The entity declarations are printed in the order enums, messages,  *)
(* extensions, services: no declaration of a later kind precedes one of an *)
(* earlier kind; within a kind the entities appear in index order 0, 1,    *)
(* 2, ...; and when generation is done each declared entity has been       *)
(* printed exactly once.                                                   *)
(***************************************************************************)
C1_EntityOrder ==
  \A f \in files :
    LET o == out[f]
        E == Positions(o, EntityKinds)
    IN  /\ \A p \in E, q \in E :
             p < q => KindRank(o[p].k) <= KindRank(o[q].k)
        /\ \A p \in E :
             o[p].n = Cardinality({q \in E : q < p /\ o[q].k = o[p].k})
        /\ Done(f) =>
             \A k \in EntityKinds :
               Cardinality(Positions(o, {k})) = Declared(desc[f], k)

\* A finished file with two enums, a message and a service.
C1_Witness ==
  \E f \in files :
    /\ Done(f)
    /\ Declared(desc[f], "enum") = 2
    /\ Declared(desc[f], "message") = 1
    /\ Declared(desc[f], "service") = 1

(***************************************************************************)
(* C2.  A file whose syntax is unknown never gets a generator: the         *)
(* constructor aborts, and nothing is ever written for that file.          *)
(***************************************************************************)
C2_UnknownSyntaxWritesNothing ==
  \A f \in files :
    desc[f].syntax = "unknown" =>
      /\ out[f] = <<>>
      /\ pc[f] \in {"new", "aborted"}

\* The constructor has run on a file of unknown syntax.
C2_Witness ==
  \E f \in files : desc[f].syntax = "unknown" /\ pc[f] = "aborted"

(***************************************************************************)
(* C3.  The namespace declarations.                                        *)
(***************************************************************************)
\* The namespaces declared so far, in the order printed.
DeclaredNamespaces(f) ==
  LET o == out[f]
      D == SelectSeq(o, LAMBDA t : t.k = "defpackage")
  IN  [p \in 1..Len(D) |-> D[p].s]
Range(s) == {s[p] : p \in 1..Len(s)}
DeclarationsPrinted(f) ==
  pc[f] \notin {"new", "aborted", "header", "packages", "declare"}
\* The namespaces the top-level messages report.
MessageNamespaces(d) ==
  UNION {d.message_type[n].packages : n \in 1..Len(d.message_type)}
\* Lexicographic order of strings.
RECURSIVE LexBefore(_, _)
LexBefore(a, b) ==
  IF b = <<>> THEN FALSE
  ELSE IF a = <<>> THEN TRUE
  ELSE \/ Head(a) < Head(b)
       \/ Head(a) = Head(b) /\ LexBefore(Tail(a), Tail(b))
\* Each declared once, in strictly increasing lexicographic order.
OnceInLexOrder(s) ==
  \A p \in 1..Len(s), q \in 1..Len(s) : p < q => LexBefore(s[p], s[q])

\* C3 as claimed: the declarations are the own namespace, the RPC namespace
\* iff the file has a service, and the messages' namespaces.
C3_Original ==
  \A f \in files :
    DeclarationsPrinted(f) =>
      /\ Range(DeclaredNamespaces(f)) =
           {TargetNamespace(desc[f])} \cup
           (IF Declared(desc[f], "service") > 0
            THEN {RpcNamespace(desc[f])} ELSE {}) \cup
           MessageNamespaces(desc[f])
      /\ OnceInLexOrder(DeclaredNamespaces(f))

\* C3, amended: the declarations are exactly the union of the own namespace
\* when it is not empty, the RPC namespace iff the own namespace is not empty
\* and the file has a service, and the namespaces the top-level messages
\* report; each is declared once, in lexicographic order.
C3_Namespaces ==
  \A f \in files :
    DeclarationsPrinted(f) =>
      /\ Range(DeclaredNamespaces(f)) =
           (IF TargetNamespace(desc[f]) # <<>>
            THEN {TargetNamespace(desc[f])} ELSE {}) \cup
           (IF TargetNamespace(desc[f]) # <<>> /\ Declared(desc[f], "service") > 0
            THEN {RpcNamespace(desc[f])} ELSE {}) \cup
           MessageNamespaces(desc[f])
      /\ OnceInLexOrder(DeclaredNamespaces(f))

\* Four declarations printed: the own namespace, one that sorts between it
\* and the RPC namespace, the RPC namespace, and a foreign one.
C3_Witness ==
  \E f \in files :
    /\ DeclarationsPrinted(f)
    /\ Len(DeclaredNamespaces(f)) = 4
    /\ Declared(desc[f], "service") > 0


(***************************************************************************)
(* C4.  The export statements at the end of a file.                        *)
(***************************************************************************)
\* What is printed after the registration entry.
AfterRegistration(f) ==
  LET o == out[f]
      r == CHOOSE p \in Positions(o, {"register"}) : TRUE
  IN  SubSeq(o, r + 1, Len(o))
\* The export statement of the accumulated ExportSet.
ExportStatement(f) == [k |-> "export", s |-> <<>>, n |-> 0, l |-> exports[f]]
\* The switch to the RPC namespace and the export statement of the RPC exports.
RpcSwitch(f) ==
  [k |-> "in-package", s |-> RpcNamespace(desc[f]), n |-> 0, l |-> <<>>]
RpcExportStatement(f) ==
  [k |-> "export", s |-> <<>>, n |-> 0, l |-> rpc_exports[f]]
\* The output ends with the switch to the RPC namespace and the RPC exports.
EndsWithRpcExport(f) ==
  LET o == out[f]
  IN  /\ Len(o) >= 2
      /\ o[Len(o) - 1] = RpcSwitch(f)
      /\ o[Len(o)] = RpcExportStatement(f)

\* C4 as claimed: the export statement is printed iff the target namespace
\* is not empty, and whenever an RPC export was accumulated the output
\* switches to the RPC namespace and prints a second export statement.
C4_Original ==
  \A f \in files :
    Done(f) =>
      /\ (ExportStatement(f) \in Range(AfterRegistration(f)))
           <=> (TargetNamespace(desc[f]) # <<>>)
      /\ rpc_exports[f] # <<>> => EndsWithRpcExport(f)

\* C4, amended: at the end of generating a file, the export statement of
\* the accumulated ExportSet is printed iff the target namespace is not
\* empty; and the switch to the RPC namespace followed by a second export
\* statement of the RPC exports is printed iff the target namespace is not
\* empty and at least one RPC export was accumulated.  Nothing else follows
\* the registration entry.
C4_ExportStatements ==
  \A f \in files :
    Done(f) =>
      LET own == TargetNamespace(desc[f]) # <<>>
          rpc == own /\ rpc_exports[f] # <<>>
          a   == AfterRegistration(f)
      IN  /\ own <=> (Len(a) >= 1 /\ a[1] = ExportStatement(f))
          /\ rpc <=> (Len(a) = 3 /\ EndsWithRpcExport(f))
          /\ Len(a) = (IF own THEN 1 ELSE 0) + (IF rpc THEN 2 ELSE 0)

\* A finished file with a namespace and RPC exports: both statements.
C4_Witness ==
  \E f \in files :
    /\ Done(f)
    /\ TargetNamespace(desc[f]) # <<>>
    /\ rpc_exports[f] # <<>>
    /\ EndsWithRpcExport(f)

(***************************************************************************)
(* C5.  How the ExportSet grows.                                           *)
(***************************************************************************)
\* What the entity printed by token t reports as its exports: an extension
\* has no exports.
ReportedExports(d, t) ==
  CASE t.k = "enum" -> d.enum_type[t.n + 1].exports
    [] t.k = "message" -> d.message_type[t.n + 1].exports
    [] t.k = "service" -> d.service[t.n + 1].exports
    [] OTHER -> <<>>
ReportedRpcExports(d, t) ==
  IF t.k = "service" THEN d.service[t.n + 1].rpc_exports ELSE <<>>
\* The entities printed so far, in the order printed.
EntitiesPrinted(f) == SelectSeq(out[f], LAMBDA t : t.k \in EntityKinds)
\* The exports of the entities printed so far, concatenated in that order.
ExportsOfPrinted(f) ==
  LET e == EntitiesPrinted(f)
  IN  Flatten([p \in 1..Len(e) |-> ReportedExports(desc[f], e[p])])
RpcExportsOfPrinted(f) ==
  LET e == EntitiesPrinted(f)
  IN  Flatten([p \in 1..Len(e) |-> ReportedRpcExports(desc[f], e[p])])
\* The entity phase: from the first section on.
EntityPhase(f) ==
  pc[f] \in {"enums", "enum", "messages", "message", "extensions",
             "extension", "services", "service", "register", "export",
             "rpc_export", "done"}

\* C5 as claimed: the final ExportSet is the concatenation of the entities'
\* self-reported exports in emission order.
C5_Original ==
  \A f \in files : Done(f) => exports[f] = ExportsOfPrinted(f)

\* C5, amended: from the start of the entity phase on, the ExportSet is at
\* every moment the schema identifier followed by the exports of the enums,
\* messages and services printed so far, concatenated in the order printed
\* (an extension appends nothing), and the RPC export set is the RPC exports
\* of the services printed so far: each entity's exports are appended in the
\* step that prints it, and nothing is reordered or removed.
C5_ExportsAccumulate ==
  \A f \in files :
    EntityPhase(f) =>
      /\ exports[f] = <<schema_name_[f]>> \o ExportsOfPrinted(f)
      /\ pc[f] \notin {"enums", "enum", "messages", "message", "extensions",
                       "extension", "services"}
           => rpc_exports[f] = RpcExportsOfPrinted(f)

\* A finished file with an enum, a message, an extension and a service.
C5_Witness ==
  \E f \in files :
    /\ Done(f)
    /\ \A k \in EntityKinds : Declared(desc[f], k) = 1
    /\ rpc_exports[f] # <<>>

(***************************************************************************)
(* C6.  The symbols of the export statement.                               *)
(***************************************************************************)
\* The list of the export statement printed right after the registration.
ExportedList(f) == AfterRegistration(f)[1].l
HasExportStatement(f) ==
  Done(f) /\ Len(AfterRegistration(f)) >= 1
\* Everything the enum, message and service generators of a file report.
AllReported(d) ==
  Flatten([n \in 1..Len(d.enum_type) |-> d.enum_type[n].exports]) \o
  Flatten([n \in 1..Len(d.message_type) |-> d.message_type[n].exports]) \o
  Flatten([n \in 1..Len(d.service) |-> d.service[n].exports])
NoDuplicates(s) ==
  \A p \in 1..Len(s), q \in 1..Len(s) : s[p] = s[q] => p = q

\* C6 as claimed: no symbol appears more than once in the export statement.
C6_Original ==
  \A f \in files : HasExportStatement(f) => NoDuplicates(ExportedList(f))

\* C6, amended: the export statement lists the schema identifier and every
\* symbol the enum, message and service generators report, each exactly as
\* often as it was contributed: the driver neither drops nor de-duplicates
\* symbols, so that no symbol appears more than once exactly when the schema
\* identifier and the reported symbols are pairwise distinct.
C6_ExportedAsContributed ==
  \A f \in files :
    HasExportStatement(f) =>
      LET contributed == <<schema_name_[f]>> \o AllReported(desc[f])
          listed      == ExportedList(f)
      IN  /\ \A x \in Range(contributed) \cup Range(listed) :
               Count(x, listed) = Count(x, contributed)
          /\ listed[1] = schema_name_[f]
          /\ NoDuplicates(listed) <=> NoDuplicates(contributed)

\* A finished file whose entities report distinct symbols, each listed once.
C6_Witness ==
  \E f \in files :
    /\ HasExportStatement(f)
    /\ Len(ExportedList(f)) >= 4
    /\ NoDuplicates(ExportedList(f))


(***************************************************************************)
(* C7.  The normalized schema identifier of a path.                        *)
(***************************************************************************)
IsSeparator(c) == c = 47 \/ c = 92
Suffixes(s) == {SubSeq(s, k, Len(s)) : k \in 1..(Len(s) + 1)}
Prefixes(s) == {SubSeq(s, 1, k) : k \in 0..Len(s)}
\* The path without everything up to and including its last separator: the
\* longest suffix that holds no separator.
BaseName(path) ==
  CHOOSE b \in Suffixes(path) :
    /\ \A c \in Range(b) : ~IsSeparator(c)
    /\ \A b2 \in Suffixes(path) :
         (\A c \in Range(b2) : ~IsSeparator(c)) => Len(b2) <= Len(b)
\* The base name without everything from its last period on: the part
\* before a period that no period follows; all of it when it has no period.
WithoutExtension(base) ==
  IF 46 \notin Range(base) THEN base
  ELSE CHOOSE s \in Prefixes(base) :
         /\ Len(s) < Len(base)
         /\ base[Len(s) + 1] = 46
         /\ \A k \in (Len(s) + 2)..Len(base) : base[k] # 46
LowerCase(s) ==
  [k \in 1..Len(s) |-> IF s[k] >= 65 /\ s[k] <= 90 THEN s[k] + 32 ELSE s[k]]
NormalizedName(path) == LowerCase(WithoutExtension(BaseName(path)))

\* C7: the schema identifier of every generator is its file's path without
\* the directories (slash and backslash both separate), without the
\* extension of the base name, in lower case.
C7_SchemaName ==
  \A f \in files : Built(f) => schema_name_[f] = NormalizedName(desc[f].name)

\* A generator for a path whose directory holds a period, ends in a
\* backslash, and whose base name has an upper-case letter and no period.
C7_Witness ==
  \E f \in files :
    /\ Built(f)
    /\ \E k \in 2..Len(desc[f].name) :
         /\ desc[f].name[k] = 92
         /\ 46 \in Range(SubSeq(desc[f].name, 1, k - 1))
         /\ Range(SubSeq(desc[f].name, k + 1, Len(desc[f].name))) = {65}
    /\ schema_name_[f] = <<97>>

(***************************************************************************)
(* C8.  The output of a file is a function of its own descriptor.          *)
(***************************************************************************)
T(k, s, n, l) == [k |-> k, s |-> s, n |-> n, l |-> l]
\* The elements of S, each once, in lexicographic order.
InLexOrder(S) ==
  CHOOSE s \in [1..Cardinality(S) -> S] : Range(s) = S /\ OnceInLexOrder(s)
\* The namespaces a file declares.
NamespacesOf(d) ==
  (IF d.lisp_package # <<>>
   THEN {d.lisp_package} \cup
        (IF Len(d.service) > 0 THEN {RpcNamespace(d)} ELSE {})
   ELSE {}) \cup MessageNamespaces(d)
\* The declarations of one kind: the section comment and the entities.
SectionOf(d, k) ==
  IF Declared(d, k) = 0 THEN <<>>
  ELSE <<T("section", <<>>, 0, <<k \o "s">>)>> \o
       [n \in 1..Declared(d, k) |-> T(k, <<>>, n - 1, <<>>)]
RpcExportsOf(d) ==
  Flatten([n \in 1..Len(d.service) |-> d.service[n].rpc_exports])
\* Everything GenerateSource prints for a file with descriptor d.
OutputOf(d) ==
  LET ns == InLexOrder(NamespacesOf(d))
      id == NormalizedName(d.name)
  IN  <<T("banner", d.name, 0, <<>>),
        T("in-package", CommonLispUser, 0, <<>>),
        T("declaim", <<>>, 0, <<>>)>> \o
      [k \in 1..Len(ns) |-> T("defpackage", ns[k], 0, <<>>)] \o
      (IF d.lisp_package # <<>>
       THEN <<T("in-package", d.lisp_package, 0, <<>>)>> ELSE <<>>) \o
      <<T("define-schema", id, 0, <<>>),
        T("syntax", IF d.syntax = "proto2" THEN Proto2Keyword
                    ELSE Proto3Keyword, 0, <<>>)>> \o
      (IF d.package # <<>> THEN <<T("package", d.package, 0, <<>>)>>
       ELSE <<>>) \o
      (IF d.dependency # <<>> THEN <<T("import", <<>>, 0, d.dependency)>>
       ELSE <<>>) \o
      <<T("end-schema", <<>>, 0, <<>>)>> \o
      SectionOf(d, "enum") \o SectionOf(d, "message") \o
      SectionOf(d, "extension") \o SectionOf(d, "service") \o
      <<T("register", d.name, 0, <<id>>)>> \o
      (IF d.lisp_package # <<>>
       THEN <<T("export", <<>>, 0, <<id>> \o AllReported(d))>> ELSE <<>>) \o
      (IF d.lisp_package # <<>> /\ RpcExportsOf(d) # <<>>
       THEN <<T("in-package", RpcNamespace(d), 0, <<>>),
              T("export", <<>>, 0, RpcExportsOf(d))>>
       ELSE <<>>)
IsPrefix(s, u) == Len(s) <= Len(u) /\ s = SubSeq(u, 1, Len(s))

\* C8: whatever the order in which the steps of the files of a batch run,
\* what has been written for a file is at every moment a prefix of the
\* output its own descriptor determines, and all of it once the file is done:
\* the output of a file does not depend on what was generated before,
\* after or in between.
C8_OutputOfOwnDescriptor ==
  \A f \in files :
    IF desc[f].syntax = "unknown" THEN out[f] = <<>>
    ELSE /\ IsPrefix(out[f], OutputOf(desc[f]))
         /\ Done(f) => out[f] = OutputOf(desc[f])

\* File 2 imports file 1 and is done while file 1 has not printed anything.
C8_Witness ==
  /\ files = {1, 2}
  /\ desc[2].dependency = <<desc[1].name>>
  /\ Done(2)
  /\ out[1] = <<>>
  /\ desc[1].syntax # "unknown"

(***************************************************************************)
(* C9.  The registration entry.                                            *)
(***************************************************************************)
SchemaKinds ==
  {"define-schema", "syntax", "package", "import", "end-schema", "section"}

\* C9: a finished file has exactly one registration entry, which binds the
\* path of the file to its normalized schema identifier; it follows the
\* schema metadata and every enum, message, extension and service, and
\* precedes every export statement.
C9_Registration ==
  \A f \in files :
    LET o == out[f]
        R == Positions(o, {"register"})
    IN  /\ Cardinality(R) <= 1
        /\ \A x \in Positions(o, {"export"}) : \E r \in R : r < x
        /\ \A r \in R :
             /\ o[r] = T("register", desc[f].name, 0,
                         <<NormalizedName(desc[f].name)>>)
             /\ \A x \in Positions(o, SchemaKinds \cup EntityKinds) : x < r
             /\ "end-schema" \in {o[x].k : x \in 1..(r - 1)}
        /\ Done(f) => Cardinality(R) = 1

\* A finished file without entities and without a namespace.
C9_Witness ==
  \E f \in files :
    /\ Done(f)
    /\ \A k \in EntityKinds : Declared(desc[f], k) = 0
    /\ TargetNamespace(desc[f]) = <<>>

(***************************************************************************)
(* C10.  Namespace switches.                                               *)
(***************************************************************************)
\* The switches other than the initial one to common-lisp-user, which is
\* the second token of every output.
LaterSwitches(f) == {p \in Positions(out[f], {"in-package"}) : p > 2}

\* C10: every namespace switch but the initial one targets a namespace
\* declared earlier in the same output; a switch to the RPC namespace after
\* the registration is printed only for a file with a service and a target
\* namespace that is not empty.
C10_SwitchesAreDeclared ==
  \A f \in files :
    LET o == out[f]
    IN  /\ \A p \in Positions(o, {"in-package"}) :
             p <= 2 => p = 2 /\ o[p].s = CommonLispUser
        /\ \A p \in LaterSwitches(f) :
             /\ \E q \in 1..(p - 1) :
                  o[q].k = "defpackage" /\ o[q].s = o[p].s
             /\ (\E r \in Positions(o, {"register"}) : r < p) =>
                  /\ o[p].s = RpcNamespace(desc[f])
                  /\ Declared(desc[f], "service") > 0
                  /\ TargetNamespace(desc[f]) # <<>>

\* A file that has switched to its RPC namespace.
C10_Witness ==
  \E f \in files :
    \E p \in LaterSwitches(f) :
      /\ out[f][p].s = RpcNamespace(desc[f])
      /\ \E r \in Positions(out[f], {"register"}) : r < p

=============================================================================
